---------------------------- MODULE Spec2Model ----------------------------
(***************************************************************************)
(* A model of the Blender ideation whiteboard (src/blender_ideation):      *)
(* the session data model and its JSON document form (data_models.py),    *)
(* the text-service wrapper's bracketed-array extraction (ai_services.py), *)
(* the mock media generators (ai_services.py), the scene exporter          *)
(* (blender_integration.py) and the orchestrator with its UI loop          *)
(* (app.py).                                                               *)
(*                                                                         *)
(* Strings that the code takes apart are sequences of pieces: a timestamp  *)
(* string is a sequence of characters, a file name a sequence of name      *)
(* parts, a prompt a sequence of words, a service reply a sequence of      *)
(* lexical tokens.  Python's None / empty string (both falsy) for a path   *)
(* is the empty sequence.                                                  *)
(***************************************************************************)
EXTENDS Integers, Sequences, FiniteSets, TLC

VARIABLES
    credential,          \* ANTHROPIC_API_KEY is set in the process environment
    blender_found,       \* find_blender_executable() locates an executable
    sessions,            \* st.session_state.sessions: id -> IdeationSession
    current_session_id,  \* st.session_state.current_session_id
    created,             \* history: ids returned by create_new_session, in order
    claude_ops,          \* history: text-service operations invoked so far
    blender_ops,         \* history: what the orchestrator's exporter has done so far
    invocation,          \* a direct call of the exporter: its position and result
    tmp_files,           \* the script files present in tempfile.gettempdir()
    media,               \* a direct call of a mock media generator and its result
    response,            \* what the text-generation service answers a direct call
    call,                \* the last direct text-service call and its result
    subject,             \* an IdeationSession handed to to_dict
    document,            \* the dictionary to_dict produced
    restored             \* the IdeationSession from_dict rebuilt

vars == <<credential, blender_found, sessions, current_session_id, created,
          claude_ops, blender_ops, invocation, tmp_files, media, response,
          call, subject, document, restored>>

orch_vars == <<credential, blender_found, sessions, current_session_id,
               created, claude_ops, blender_ops>>
exporter_vars == <<invocation, tmp_files>>
media_vars == <<media>>
tags_vars == <<response, call>>
serial_vars == <<subject, document, restored>>

-----------------------------------------------------------------------------
(* Bounds of the model. *)

\* sessions created in one run
MaxSessions == 2
\* tokens in a service reply handed to the bracketed-array extraction
MaxReplyLen == 5

None == "None"
NoPath == <<>>

-----------------------------------------------------------------------------
(* datetime.isoformat / datetime.fromisoformat, as used by to_dict and     *)
(* from_dict.  A datetime is the record of its fields (naive, as           *)
(* datetime.now() returns it); its ISO string is a sequence of characters. *)

DigitChars == <<"0", "1", "2", "3", "4", "5", "6", "7", "8", "9">>

DigitVal(c) == (CHOOSE i \in 1..10 : DigitChars[i] = c) - 1

RECURSIVE Pad(_, _)
Pad(n, width) ==
    IF width = 0 THEN <<>>
    ELSE Pad(n \div 10, width - 1) \o <<DigitChars[(n % 10) + 1]>>

RECURSIVE ParseInt(_)
ParseInt(s) ==
    IF s = <<>> THEN 0
    ELSE ParseInt(SubSeq(s, 1, Len(s) - 1)) * 10 + DigitVal(s[Len(s)])

\* isoformat as it would be with timespec="seconds": the fraction is never written
isoformat_seconds(dt) ==
    Pad(dt.year, 4) \o <<"-">> \o Pad(dt.month, 2) \o <<"-">> \o Pad(dt.day, 2)
    \o <<"T">> \o Pad(dt.hour, 2) \o <<":">> \o Pad(dt.minute, 2)
    \o <<":">> \o Pad(dt.second, 2)

\* YYYY-MM-DDTHH:MM:SS, then .ffffff unless the microsecond is 0
isoformat(dt) ==
    Pad(dt.year, 4) \o <<"-">> \o Pad(dt.month, 2) \o <<"-">> \o Pad(dt.day, 2)
    \o <<"T">> \o Pad(dt.hour, 2) \o <<":">> \o Pad(dt.minute, 2)
    \o <<":">> \o Pad(dt.second, 2)
    \o (IF dt.microsecond # 0 THEN <<".">> \o Pad(dt.microsecond, 6) ELSE <<>>)

fromisoformat(s) ==
    [year        |-> ParseInt(SubSeq(s, 1, 4)),
     month       |-> ParseInt(SubSeq(s, 6, 7)),
     day         |-> ParseInt(SubSeq(s, 9, 10)),
     hour        |-> ParseInt(SubSeq(s, 12, 13)),
     minute      |-> ParseInt(SubSeq(s, 15, 16)),
     second      |-> ParseInt(SubSeq(s, 18, 19)),
     microsecond |-> IF Len(s) > 19 THEN ParseInt(SubSeq(s, 21, 26)) ELSE 0]

-----------------------------------------------------------------------------
(* IdeationSession and its dictionary form. *)

ArtifactFields == {"sketch_path", "rendered_image_path", "sketch_3d_path",
                   "text_3d_path", "blender_file_path"}

\* IdeationSession(id=..., title=..., ...): the timestamps come from the two
\* datetime.now default factories, the five paths default to None
IdeationSession(id, title, project_type, genre, description, tags, c_at, u_at) ==
    [id |-> id, title |-> title, project_type |-> project_type,
     genre |-> genre, description |-> description, tags |-> tags,
     created_at |-> c_at, updated_at |-> u_at,
     sketch_path |-> NoPath, rendered_image_path |-> NoPath,
     sketch_3d_path |-> NoPath, text_3d_path |-> NoPath,
     blender_file_path |-> NoPath]

to_dict(s) ==
    [id |-> s.id, title |-> s.title, project_type |-> s.project_type,
     genre |-> s.genre, description |-> s.description, tags |-> s.tags,
     created_at |-> isoformat(s.created_at),
     updated_at |-> isoformat(s.updated_at),
     sketch_path |-> s.sketch_path,
     rendered_image_path |-> s.rendered_image_path,
     sketch_3d_path |-> s.sketch_3d_path,
     text_3d_path |-> s.text_3d_path,
     blender_file_path |-> s.blender_file_path]

\* from_dict on a document whose two timestamps are strings, which is what
\* to_dict writes: both isinstance(..., str) branches are taken
from_dict(d) ==
    [d EXCEPT !.created_at = fromisoformat(d.created_at),
              !.updated_at = fromisoformat(d.updated_at)]

-----------------------------------------------------------------------------
(* The text-generation service's reply and the bracketed-array extraction  *)
(* of ClaudeService.extract_tags / suggest_improvements.  A reply's text   *)
(* is a sequence of tokens: the two brackets, the comma, one JSON string   *)
(* literal, white space, and a word of prose (no JSON value).              *)

STR == "\"a\""
WS == " "
WORD == "word"
ReplyTokens == {"[", "]", ",", STR, WS, WORD}

RECURSIVE SeqsUpTo(_, _)
SeqsUpTo(S, n) ==
    IF n = 0 THEN {<<>>}
    ELSE LET shorter == SeqsUpTo(S, n - 1)
         IN  shorter \cup {Append(t, x) : t \in {u \in shorter : Len(u) = n - 1}, x \in S}

\* messages.create raises / answers with an empty content list / answers text
ErrorReply == [kind |-> "error", text |-> <<>>]
EmptyReply == [kind |-> "no_content", text |-> <<>>]
TextReply(t) == [kind |-> "text", text |-> t]

Indices(t, tok) == {i \in 1..Len(t) : t[i] = tok}
Min(S) == CHOOSE x \in S : \A y \in S : x <= y
Max(S) == CHOOSE x \in S : \A y \in S : x >= y

\* the search as it would be with the non-greedy pattern \[.*?\]: it stops at
\* the first "]" after the leftmost "["
search_nongreedy(content) ==
    LET opens == Indices(content, "[")
        closes == Indices(content, "]")
    IN  IF opens = {} \/ {j \in closes : j > Min(opens)} = {} THEN <<>>
        ELSE SubSeq(content, Min(opens), Min({j \in closes : j > Min(opens)}))

\* re.search(r'\[.*\]', content, re.DOTALL): the leftmost "[" that has a "]"
\* after it, and greedily everything up to the last "]"; <<>> for no match
search(content) ==
    LET opens == Indices(content, "[")
        closes == Indices(content, "]")
    IN  IF opens = {} \/ closes = {} \/ Max(closes) < Min(opens) THEN <<>>
        ELSE SubSeq(content, Min(opens), Max(closes))

\* json.loads skips white space between tokens
RECURSIVE Strip(_)
Strip(t) ==
    IF t = <<>> THEN <<>>
    ELSE IF t[1] = WS THEN Strip(Tail(t)) ELSE <<t[1]>> \o Strip(Tail(t))

RECURSIVE IsArray(_)
RECURSIVE IsValue(_)
RECURSIVE IsElemList(_)
IsValue(t) == t = <<STR>> \/ IsArray(t)

IsElemList(t) ==
    \/ IsValue(t)
    \/ \E k \in 2..(Len(t) - 1) :
          /\ t[k] = ","
          /\ IsValue(SubSeq(t, 1, k - 1))
          /\ IsElemList(SubSeq(t, k + 1, Len(t)))

\* the JSON grammar of an array over the tokens (white space stripped)
IsArray(t) ==
    /\ Len(t) >= 2
    /\ t[1] = "["
    /\ t[Len(t)] = "]"
    /\ \/ Len(t) = 2
       \/ IsElemList(SubSeq(t, 2, Len(t) - 1))

\* json.loads(text) for a text that starts with "[": the list it denotes, written
\* as its elements' tokens without white space ([] is <<>>); ok is FALSE for
\* json.JSONDecodeError
json_loads(text) ==
    LET t == Strip(text)
    IN  IF IsArray(t) THEN [ok |-> TRUE, value |-> SubSeq(t, 2, Len(t) - 1)]
        ELSE [ok |-> FALSE, value |-> <<>>]

Returned(v) == [outcome |-> "returned", value |-> v]
Raised == [outcome |-> "raised", value |-> <<>>]

\* the try block of extract_tags and of suggest_improvements: content[0] of an
\* empty content list and a JSON error are caught (except Exception)
extract_array(reply) ==
    IF reply.kind = "no_content" THEN Returned(<<>>)
    ELSE LET json_match == search(reply.text)
         IN  IF json_match # <<>>
             THEN LET parsed == json_loads(json_match)
                  IN  IF parsed.ok THEN Returned(parsed.value) ELSE Returned(<<>>)
             ELSE Returned(<<>>)

\* the request is made before the try block: its exception is not caught
extract_tags(reply) ==
    IF reply.kind = "error" THEN Raised ELSE extract_array(reply)

suggest_improvements(reply) ==
    IF reply.kind = "error" THEN Raised ELSE extract_array(reply)

-----------------------------------------------------------------------------
(* Paths.  A path is the sequence of its directory and the parts of its    *)
(* file name; os.path.join and the f-strings concatenate.                  *)

BASE_DIR == "assets/"
SKETCHES_DIR == "assets/sketches/"
IMAGES_DIR == "assets/images/"
MODELS_DIR == "assets/models/"
SESSIONS_DIR == "assets/sessions/"

basename(path) == Tail(path)
Truthy(path) == path # NoPath

\* uuid.uuid4(): the next identifier no session has been given yet
UUIDS == <<"u1", "u2", "u3", "u4">>
uuid4 == UUIDS[Len(created) + 1]

\* datetime.now() at the two default factories of one construction: the
\* second reading is not earlier than the first
T0 == [year |-> 2026, month |-> 11, day |-> 2, hour |-> 9, minute |-> 30,
       second |-> 0, microsecond |-> 0]
T1 == [year |-> 2026, month |-> 11, day |-> 2, hour |-> 9, minute |-> 30,
       second |-> 0, microsecond |-> 4512]
Clock == <<T0, T1>>
NowPairs == {<<Clock[1], Clock[2]>>}

\* what the user types into the form (run, lines 290-293): sequences of words
Titles == {<<"Dragon">>}
ProjectTypes == {<<"Video", "Game">>}
Genres == {<<"Sci-Fi">>}
Descriptions == {<<>>}

\* what the file uploader hands over: a name ending in .png, .jpg or .jpeg and
\* contents that PIL can decode or not
Uploads == [name : {<<"robot", ".png">>, <<"car", ".jpg">>}, decodable : BOOLEAN]

\* what the text service answers the orchestrator's two requests
TagReplies == {ErrorReply, TextReply(<<WORD, "[", STR, "]">>)}
PromptReplies == {ErrorReply, EmptyReply,
                  TextReply(<<"Sleek,", "chrome", "robot", "with", "antennae">>)}

-----------------------------------------------------------------------------
(* The mock media generators. *)

\* Image.save picks the format from the extension; add_color_tint returns an
\* RGBA image, which the JPEG writer refuses (OSError)
SavesRGBA(path) == path[Len(path)] \notin {".jpg", ".jpeg"}

\* MockImageGenerator.convert_sketch_to_image: every exception is caught
convert_sketch_to_image(sketch_path, output_dir, decodable, writable) ==
    LET output_path == <<output_dir, "rendered_">> \o basename(sketch_path)
    IN  IF decodable /\ SavesRGBA(output_path) /\ writable
        THEN [path |-> output_path, written |-> {output_path}]
        ELSE [path |-> NoPath, written |-> {}]

\* Mock3DGenerator.sketch_to_3d: no try block, open() may raise
sketch_to_3d(image_path, output_dir, writable) ==
    LET output_path == <<output_dir, "model_from_sketch_">> \o basename(image_path) \o <<".glb">>
    IN  IF writable
        THEN [raised |-> FALSE, path |-> output_path, written |-> {output_path}]
        ELSE [raised |-> TRUE, path |-> NoPath, written |-> {}]

\* one word lowered and without the characters outside [\w\-_]
SlugWord(w) ==
    CASE w = "A" -> "a"
      [] w = "3D" -> "3d"
      [] w = "Dragon" -> "dragon"
      [] w = "Sleek," -> "sleek"
      [] w = "genre." -> "genre"
      [] OTHER -> w

RECURSIVE JoinSlug(_)
JoinSlug(words) ==
    IF words = <<>> THEN <<>>
    ELSE IF Len(words) = 1 THEN <<SlugWord(words[1])>>
    ELSE <<SlugWord(words[1]), "_">> \o JoinSlug(Tail(words))

FirstWords(prompt, n) == SubSeq(prompt, 1, IF Len(prompt) < n THEN Len(prompt) ELSE n)

\* Mock3DGenerator.text_to_3d: the file name is the slug of the first three
\* words of the prompt; no try block, open() may raise
text_to_3d(text_prompt, output_dir, writable) ==
    LET filename == JoinSlug(FirstWords(text_prompt, 3))
        output_path == <<output_dir, "model_from_text_">> \o filename \o <<".glb">>
    IN  IF writable
        THEN [raised |-> FALSE, path |-> output_path, written |-> {output_path}]
        ELSE [raised |-> TRUE, path |-> NoPath, written |-> {}]

\* utils.save_session_to_json: every exception is caught
save_session_to_json(session, filepath, writable) ==
    IF writable THEN [success |-> TRUE, written |-> {filepath}]
    ELSE [success |-> FALSE, written |-> {}]

-----------------------------------------------------------------------------
(* The scene exporter. *)

\* BlenderIntegration.__init__ with no path given: located says whether
\* find_blender_executable() returns a path
BlenderIntegration(located) ==
    IF located THEN [raised |-> FALSE, error |-> "none"]
    ELSE [raised |-> TRUE, error |-> "ValueError"]

\* tempfile.gettempdir()
TMP_DIR == "tmp/"

\* how an f-string renders a path of the session data: None reads "None"
Rendered(path) == IF path = NoPath THEN <<"None">> ELSE path

NoResult == [outcome |-> "none", value |-> NoPath]
ReturnedPath(path) == [outcome |-> "returned_path", value |-> path]
ReturnedNone == [outcome |-> "returned_none", value |-> NoPath]
RaisedError == [outcome |-> "raised", value |-> NoPath]

\* a call of the exporter: the operation, where it stands, the model paths
\* it was given, the script it drives the executable with and where that
\* script goes, how writing the script and running the executable went, and
\* what the call gave back
Invocation(op, pc, model_paths, script_path, script, result) ==
    [op |-> op, pc |-> pc, model_paths |-> model_paths,
     script_path |-> script_path, script |-> script,
     io |-> "none", exit |-> "none", result |-> result]

NoScript == [imports |-> <<>>, labels |-> <<>>, save_as |-> NoPath]
NotCalled == Invocation("none", "idle", <<>>, NoPath, NoScript, NoResult)

\* import_3d_model up to the script text (lines 51-92): a missing model file
\* ends the call with None; a missing project path becomes a name in the
\* temporary directory
import_3d_model_begin(model_path, model_exists, blender_project_path) ==
    LET project == IF blender_project_path = NoPath
                   THEN <<TMP_DIR, "ideation_", "time", ".blend">>
                   ELSE blender_project_path
    IN  IF ~model_exists
        THEN Invocation("import_3d_model", "done", <<model_path>>, NoPath,
                        NoScript, ReturnedNone)
        ELSE Invocation("import_3d_model", "write_script", <<model_path>>,
                        <<TMP_DIR, "import_script", ".py">>,
                        [imports |-> <<model_path>>, labels |-> <<>>,
                         save_as |-> project],
                        NoResult)

\* create_ideation_scene up to the script text as it would be if a session
\* without models ended the call
create_ideation_scene_begin_needing_models(session_data, output_path) ==
    LET out == IF output_path = NoPath
               THEN <<TMP_DIR, "ideation_scene_", "time", ".blend">>
               ELSE output_path
    IN  IF session_data.sketch_3d_path = NoPath /\ session_data.text_3d_path = NoPath
        THEN Invocation("create_ideation_scene", "done",
                        <<session_data.sketch_3d_path, session_data.text_3d_path>>,
                        NoPath, NoScript, ReturnedNone)
        ELSE Invocation("create_ideation_scene", "write_script",
                        <<session_data.sketch_3d_path, session_data.text_3d_path>>,
                        <<TMP_DIR, "create_ideation_scene", ".py">>,
                        [imports |-> <<Rendered(session_data.sketch_3d_path),
                                       Rendered(session_data.text_3d_path)>>,
                         labels |-> <<session_data.title, session_data.project_type,
                                      session_data.genre>>,
                         save_as |-> out],
                        NoResult)

\* create_ideation_scene up to the script text (lines 131-287): the two model
\* paths and the three labels are read from the session data and formatted
\* into the script, whatever they are
create_ideation_scene_begin(session_data, output_path) ==
    LET out == IF output_path = NoPath
               THEN <<TMP_DIR, "ideation_scene_", "time", ".blend">>
               ELSE output_path
    IN  Invocation("create_ideation_scene", "write_script",
                   <<session_data.sketch_3d_path, session_data.text_3d_path>>,
                   <<TMP_DIR, "create_ideation_scene", ".py">>,
                   [imports |-> <<Rendered(session_data.sketch_3d_path),
                                  Rendered(session_data.text_3d_path)>>,
                    labels |-> <<session_data.title, session_data.project_type,
                                 session_data.genre>>,
                    save_as |-> out],
                   NoResult)

\* with open(script_path, 'w') as f: f.write(script_content), outside the try
\* statement: open() may raise before the file is there, and the write may
\* raise once open() has created it
ScriptIO == {"ok", "open_fails", "write_fails"}

write_script(inv, tmp, io) ==
    CASE io = "ok" ->
             [inv |-> [inv EXCEPT !.pc = "run", !.io = io],
              tmp |-> tmp \cup {inv.script_path}]
      [] io = "open_fails" ->
             [inv |-> [inv EXCEPT !.pc = "done", !.io = io, !.result = RaisedError],
              tmp |-> tmp]
      [] OTHER ->
             [inv |-> [inv EXCEPT !.pc = "done", !.io = io, !.result = RaisedError],
              tmp |-> tmp \cup {inv.script_path}]

\* subprocess.run([...], check=True) inside the try statement: exit status 0
\* returns the project path, CalledProcessError (a non-zero exit) is caught
\* and gives None, any other exception (the executable cannot be started)
\* leaves the try statement
ProcessExits == {"exit0", "nonzero", "cannot_start"}

\* the run as it would be without check=True: a non-zero exit raises
\* nothing and the project path is returned
run_blender_unchecked(inv, tmp, exit) ==
    [inv |-> [inv EXCEPT !.pc = "finally", !.exit = exit,
                         !.result = CASE exit = "exit0" -> ReturnedPath(inv.script.save_as)
                                      [] exit = "nonzero" -> ReturnedPath(inv.script.save_as)
                                      [] OTHER -> RaisedError],
     tmp |-> tmp]

run_blender(inv, tmp, exit) ==
    [inv |-> [inv EXCEPT !.pc = "finally", !.exit = exit,
                         !.result = CASE exit = "exit0" -> ReturnedPath(inv.script.save_as)
                                      [] exit = "nonzero" -> ReturnedNone
                                      [] OTHER -> RaisedError],
     tmp |-> tmp]

\* the finally clause: the script is removed if it is there
remove_script(inv, tmp) ==
    [inv |-> [inv EXCEPT !.pc = "done"], tmp |-> tmp \ {inv.script_path}]

ExportOutcomes == {"exit0", "nonzero", "cannot_start", "script_write"}

\* BlenderIntegration.create_ideation_scene as one call: the script is
\* written, the executable run with check=True, and the script removed in
\* the finally clause; only CalledProcessError (a non-zero exit) is caught
create_ideation_scene(session_data, output_path, outcome) ==
    LET begun == create_ideation_scene_begin(session_data, output_path)
        wrote == write_script(begun, {}, IF outcome = "script_write"
                                         THEN "open_fails" ELSE "ok")
        ran == IF wrote.inv.pc = "run"
               THEN run_blender(wrote.inv, wrote.tmp, outcome) ELSE wrote
        ended == IF ran.inv.pc = "finally"
                 THEN remove_script(ran.inv, ran.tmp) ELSE ran
        result == ended.inv.result
    IN  [raised |-> result.outcome = "raised",
         path |-> result.value,
         written |-> IF result.outcome = "returned_path" THEN {result.value} ELSE {},
         ops |-> (IF ended.inv.io = "ok" THEN {"script_written"} ELSE {})
                 \cup (IF ended.inv.exit \in {"exit0", "nonzero"}
                       THEN {"process_started"} ELSE {})]

-----------------------------------------------------------------------------
(* The orchestrator, BlenderIdeationApp.  _initialize_services runs at the *)
(* start of every run(): self.claude is set iff the credential is there,   *)
(* self.blender iff an executable is found; both facts are fixed for the   *)
(* process.                                                                *)

\* self.claude as it would be if the service object were kept although the
\* credential is missing
claude_unchecked == TRUE

claude == credential

\* self.blender as it would be if _initialize_services kept an exporter
\* although no executable was located
blender_unchecked == TRUE

\* _initialize_services: self.blender is None when the constructor raises
blender == ~BlenderIntegration(blender_found).raised

Put(map, key, value) ==
    [k \in DOMAIN map \cup {key} |-> IF k = key THEN value ELSE map[k]]

\* the current_session property: None without a cursor, else sessions.get(id)
HasCurrent == current_session_id # None /\ current_session_id \in DOMAIN sessions
current_session == sessions[current_session_id]

\* the setter as it would be if it recorded the id without storing the record
current_session_set_unstored(map, session) ==
    [sessions |-> map, current_session_id |-> session.id]

\* the current_session setter for a session: store it, then point at it
current_session_set(map, session) ==
    [sessions |-> Put(map, session.id, session), current_session_id |-> session.id]

\* the setter as it would be if "New Session" also dropped the record
current_session_clear_dropping(map, cursor) ==
    [sessions |-> [k \in DOMAIN map \ {cursor} |-> map[k]], current_session_id |-> None]

\* the current_session setter for None: only the cursor is cleared
current_session_clear(map, cursor) ==
    [sessions |-> map, current_session_id |-> None]

\* the state an orchestrator call leaves behind, the files it wrote and how
\* it ended
Result(map, cursor, written, ops, outcome) ==
    [sessions |-> map, current_session_id |-> cursor, written |-> written,
     claude_ops |-> ops, blender_ops |-> blender_ops, outcome |-> outcome]

Unchanged(outcome) ==
    Result(sessions, current_session_id, {}, claude_ops, outcome)

\* create_new_session(title, project_type, genre, description); reply is the
\* text service's answer to extract_tags, now the two datetime.now() readings
create_new_session(title, project_type, genre, description, reply, now) ==
    LET tagged == IF claude THEN extract_tags(reply) ELSE Returned(<<>>)
        ops == IF claude THEN claude_ops \cup {"extract_tags"} ELSE claude_ops
    IN  IF tagged.outcome = "raised"
        THEN Result(sessions, current_session_id, {}, ops, "raised")
        ELSE LET session == IdeationSession(uuid4, title, project_type, genre,
                                            description, tagged.value, now[1], now[2])
                 set == current_session_set(sessions, session)
             IN  Result(set.sessions, set.current_session_id, {}, ops,
                        "returned_session")

\* process_sketch as it would be if the sketch were saved under the uploaded
\* name alone, without the session id in front
process_sketch_unprefixed(uploaded_file, fault) ==
    IF ~HasCurrent THEN Unchanged("returned_none")
    ELSE
    LET id == current_session_id
        sketch_path == <<SKETCHES_DIR>> \o uploaded_file.name
        s1 == [current_session EXCEPT !.sketch_path = sketch_path]
        image == convert_sketch_to_image(sketch_path, IMAGES_DIR,
                                         uploaded_file.decodable, fault # "image_save")
        s2 == [s1 EXCEPT !.rendered_image_path = image.path]
        model == sketch_to_3d(image.path, MODELS_DIR, fault # "model_write")
        s3 == [s2 EXCEPT !.sketch_3d_path = model.path]
        set == current_session_set(Put(sessions, id, s3), s3)
    IN  IF fault = "sketch_write" THEN Unchanged("raised")
        ELSE IF ~Truthy(image.path)
        THEN Result(Put(sessions, id, s1), id, {sketch_path},
                    claude_ops, "returned_session")
        ELSE IF model.raised
        THEN Result(Put(sessions, id, s2), id,
                    {sketch_path} \cup image.written, claude_ops, "raised")
        ELSE Result(set.sessions, set.current_session_id,
                    {sketch_path} \cup image.written \cup model.written,
                    claude_ops, "returned_session")

\* process_sketch as it would be if it went on to the 3D step when the image
\* conversion returned None
process_sketch_unhalted(uploaded_file, fault) ==
    IF ~HasCurrent THEN Unchanged("returned_none")
    ELSE
    LET id == current_session_id
        sketch_path == <<SKETCHES_DIR, id, "_">> \o uploaded_file.name
        s1 == [current_session EXCEPT !.sketch_path = sketch_path]
        image == convert_sketch_to_image(sketch_path, IMAGES_DIR,
                                         uploaded_file.decodable, fault # "image_save")
        s2 == [s1 EXCEPT !.rendered_image_path = image.path]
        model == sketch_to_3d(IF Truthy(image.path) THEN image.path ELSE <<"", "None">>,
                              MODELS_DIR, fault # "model_write")
        s3 == [s2 EXCEPT !.sketch_3d_path = model.path]
        set == current_session_set(Put(sessions, id, s3), s3)
    IN  IF fault = "sketch_write" THEN Unchanged("raised")
        ELSE IF model.raised
        THEN Result(Put(sessions, id, s2), id,
                    {sketch_path} \cup image.written, claude_ops, "raised")
        ELSE Result(set.sessions, set.current_session_id,
                    {sketch_path} \cup image.written \cup model.written,
                    claude_ops, "returned_session")

\* process_sketch(uploaded_file); fault names the file write that fails, if any
process_sketch(uploaded_file, fault) ==
    IF ~HasCurrent THEN Unchanged("returned_none")
    ELSE
    LET id == current_session_id
        sketch_path == <<SKETCHES_DIR, id, "_">> \o uploaded_file.name
        s1 == [current_session EXCEPT !.sketch_path = sketch_path]
        image == convert_sketch_to_image(sketch_path, IMAGES_DIR,
                                         uploaded_file.decodable, fault # "image_save")
        s2 == [s1 EXCEPT !.rendered_image_path = image.path]
        model == sketch_to_3d(image.path, MODELS_DIR, fault # "model_write")
        s3 == [s2 EXCEPT !.sketch_3d_path = model.path]
        set == current_session_set(Put(sessions, id, s3), s3)
    IN  IF fault = "sketch_write" THEN Unchanged("raised")
        ELSE IF ~Truthy(image.path)
        THEN Result(Put(sessions, id, s1), id, {sketch_path},
                    claude_ops, "returned_session")
        ELSE IF model.raised
        THEN Result(Put(sessions, id, s2), id,
                    {sketch_path} \cup image.written, claude_ops, "raised")
        ELSE Result(set.sessions, set.current_session_id,
                    {sketch_path} \cup image.written \cup model.written,
                    claude_ops, "returned_session")

\* the fallback prompt as it would be if the template left the title out
fallback_prompt_untitled(s) ==
    <<"A", "3D", "model", "for", "a">> \o s.project_type
    \o <<"in", "the">> \o s.genre \o <<"genre.">>

\* the prompt generate_text_3d uses when self.claude is None
fallback_prompt(s) ==
    <<"A", "3D">> \o s.title \o <<"for", "a">> \o s.project_type
    \o <<"in", "the">> \o s.genre \o <<"genre.">>

\* generate_text_3d as it would be if it assigned the model to sketch_3d_path
\* as well as to text_3d_path
generate_text_3d_both(reply, fault) ==
    IF ~HasCurrent THEN Unchanged("returned_none")
    ELSE
    LET id == current_session_id
        ops == IF claude THEN claude_ops \cup {"generate_3d_prompt"} ELSE claude_ops
        prompt == IF claude THEN reply.text ELSE fallback_prompt(current_session)
        model == text_to_3d(prompt, MODELS_DIR, fault # "model_write")
        s1 == [current_session EXCEPT !.text_3d_path = model.path,
                                      !.sketch_3d_path = model.path]
        set == current_session_set(Put(sessions, id, s1), s1)
    IN  IF claude /\ reply.kind # "text"
        THEN Result(sessions, id, {}, ops, "raised")
        ELSE IF model.raised
        THEN Result(sessions, id, {}, ops, "raised")
        ELSE Result(set.sessions, set.current_session_id, model.written,
                    ops, "returned_session")

\* generate_text_3d(); reply is the text service's answer to generate_3d_prompt,
\* whose request and content[0] are outside any try block
generate_text_3d(reply, fault) ==
    IF ~HasCurrent THEN Unchanged("returned_none")
    ELSE
    LET id == current_session_id
        ops == IF claude THEN claude_ops \cup {"generate_3d_prompt"} ELSE claude_ops
        prompt == IF claude THEN reply.text ELSE fallback_prompt(current_session)
        model == text_to_3d(prompt, MODELS_DIR, fault # "model_write")
        s1 == [current_session EXCEPT !.text_3d_path = model.path]
        set == current_session_set(Put(sessions, id, s1), s1)
    IN  IF claude /\ reply.kind # "text"
        THEN Result(sessions, id, {}, ops, "raised")
        ELSE IF model.raised
        THEN Result(sessions, id, {}, ops, "raised")
        ELSE Result(set.sessions, set.current_session_id, model.written,
                    ops, "returned_session")

\* a reading of datetime.now() after the session was constructed
Later == [T1 EXCEPT !.minute = 45]

\* save_session as it would be if it refreshed updated_at before writing
save_session_touching(fault) ==
    IF ~HasCurrent THEN Unchanged("returned_false")
    ELSE
    LET session_path == <<SESSIONS_DIR, current_session_id, ".json">>
        s1 == [current_session EXCEPT !.updated_at = Later]
        saved == save_session_to_json(to_dict(s1), session_path,
                                      fault # "json_write")
    IN  Result(Put(sessions, current_session_id, s1), current_session_id,
               saved.written, claude_ops,
               IF saved.success THEN "returned_true" ELSE "returned_false")

\* save_session as it would be without its test for a current session: the
\* attribute access on None raises
save_session_unguarded(fault) ==
    IF ~HasCurrent THEN Unchanged("raised")
    ELSE
    LET session_path == <<SESSIONS_DIR, current_session_id, ".json">>
        saved == save_session_to_json(to_dict(current_session), session_path,
                                      fault # "json_write")
    IN  Result(sessions, current_session_id, saved.written, claude_ops,
               IF saved.success THEN "returned_true" ELSE "returned_false")

\* save_session()
save_session(fault) ==
    IF ~HasCurrent THEN Unchanged("returned_false")
    ELSE
    LET session_path == <<SESSIONS_DIR, current_session_id, ".json">>
        saved == save_session_to_json(to_dict(current_session), session_path,
                                      fault # "json_write")
    IN  Result(sessions, current_session_id, saved.written, claude_ops,
               IF saved.success THEN "returned_true" ELSE "returned_false")

\* a call's result with what the exporter did during it
Exporting(r, scene) == [r EXCEPT !.blender_ops = blender_ops \cup scene.ops]

\* export_to_blender as it would be if it assigned the exporter's result
\* before looking at it
export_to_blender_unchecked(outcome) ==
    IF ~HasCurrent THEN Unchanged("returned_none")
    ELSE IF ~blender THEN Unchanged("returned_none")
    ELSE
    LET id == current_session_id
        scene == create_ideation_scene(to_dict(current_session),
                                       <<BASE_DIR, id, ".blend">>, outcome)
        s1 == [current_session EXCEPT !.blender_file_path = scene.path]
        set == current_session_set(Put(sessions, id, s1), s1)
    IN  IF scene.raised THEN Exporting(Unchanged("raised"), scene)
        ELSE Exporting(Result(set.sessions, set.current_session_id, scene.written,
                              claude_ops, IF Truthy(scene.path) THEN "returned_path"
                                          ELSE "returned_none"), scene)

\* export_to_blender(); outcome is how the external run goes
export_to_blender(outcome) ==
    IF ~HasCurrent THEN Unchanged("returned_none")
    ELSE IF ~blender THEN Unchanged("returned_none")
    ELSE
    LET id == current_session_id
        scene == create_ideation_scene(to_dict(current_session),
                                       <<BASE_DIR, id, ".blend">>, outcome)
        s1 == [current_session EXCEPT !.blender_file_path = scene.path]
        set == current_session_set(Put(sessions, id, s1), s1)
    IN  IF scene.raised THEN Exporting(Unchanged("raised"), scene)
        ELSE IF ~Truthy(scene.path) THEN Exporting(Unchanged("returned_none"), scene)
        ELSE Exporting(Result(set.sessions, set.current_session_id, scene.written,
                              claude_ops, "returned_path"), scene)

-----------------------------------------------------------------------------
(* Orchestrator steps.  One step is one call of a method of the            *)
(* orchestrator; under the UI loop it is one rerun of run() with one       *)
(* button pressed, guarded as run() guards the button.  What a call        *)
(* returns and the files it writes are the outcome and written fields of   *)
(* the method's Result; the session state keeps what the call assigned.    *)

Apply(op, r) ==
    /\ sessions' = r.sessions
    /\ current_session_id' = r.current_session_id
    /\ claude_ops' = r.claude_ops
    /\ blender_ops' = r.blender_ops
    /\ created' = IF op = "create_new_session" /\ r.outcome = "returned_session"
                  THEN Append(created, r.current_session_id)
                  ELSE created
    /\ UNCHANGED <<credential, blender_found, tags_vars, serial_vars, exporter_vars, media_vars>>

SketchFaults == {"none", "sketch_write", "image_save", "model_write"}
TextFaults == {"none", "model_write"}
SaveFaults == {"none", "json_write"}

\* run, lines 275-276: the "New Session" button
NewSessionButton ==
    LET set == current_session_clear(sessions, current_session_id)
    IN  Apply("new_session",
              Result(set.sessions, set.current_session_id, {}, claude_ops, "done"))

\* run, lines 279-283: the button of a previous session
SessionButton ==
    \E id \in DOMAIN sessions :
        LET set == current_session_set(sessions, sessions[id])
        IN  Apply("select_session",
                  Result(set.sessions, set.current_session_id, {}, claude_ops, "done"))

CreateNewSession ==
    /\ Len(created) < MaxSessions
    /\ \E title \in Titles, project_type \in ProjectTypes, genre \in Genres,
          description \in Descriptions, reply \in TagReplies, now \in NowPairs :
          Apply("create_new_session",
                create_new_session(title, project_type, genre, description, reply, now))

ProcessSketch ==
    \E uploaded_file \in Uploads, fault \in SketchFaults :
        Apply("process_sketch", process_sketch(uploaded_file, fault))

GenerateText3D ==
    \E reply \in PromptReplies, fault \in TextFaults :
        Apply("generate_text_3d", generate_text_3d(reply, fault))

SaveSession ==
    \E fault \in SaveFaults : Apply("save_session", save_session(fault))

ExportToBlender ==
    \E outcome \in ExportOutcomes : Apply("export_to_blender", export_to_blender(outcome))

\* the guards of run() around each button
ShowsForm == ~HasCurrent
\* the Process Sketch guard as it would be without its sketch_path conjunct
ShowsProcessSketch_unguarded(s) == TRUE
ShowsProcessSketch(s) == ~Truthy(s.sketch_path)
\* the text-to-3D guard as it would be without its sketch_path conjunct
ShowsGenerateText3D_unguarded(s) == ~Truthy(s.text_3d_path)
ShowsGenerateText3D(s) == Truthy(s.sketch_path) /\ ~Truthy(s.text_3d_path)
ShowsExport(s) == blender /\ Truthy(s.sketch_3d_path)

StartSessionForm == ShowsForm /\ CreateNewSession
ProcessSketchButton == HasCurrent /\ ShowsProcessSketch(current_session) /\ ProcessSketch
GenerateText3DButton == HasCurrent /\ ShowsGenerateText3D(current_session) /\ GenerateText3D
SaveButton == HasCurrent /\ SaveSession
ExportButton == HasCurrent /\ ShowsExport(current_session) /\ ExportToBlender

NoCall == [op |-> "none", outcome |-> "none", value |-> <<>>]

InitOrchestrator ==
    /\ credential \in BOOLEAN
    /\ blender_found \in BOOLEAN
    /\ sessions = <<>>
    /\ current_session_id = None
    /\ created = <<>>
    /\ claude_ops = {}
    /\ blender_ops = {}

IdleTags == response = EmptyReply /\ call = NoCall
IdleSerial ==
    /\ subject = IdeationSession("u1", <<>>, <<>>, <<>>, <<>>, <<>>, T0, T0)
    /\ document = <<>>
    /\ restored = <<>>

\* no direct call of the exporter is under way
IdleExporter == invocation = NotCalled /\ tmp_files = {}

\* a direct call of a generator: the method, its argument (a path or a
\* prompt) and output directory, whether PIL can decode the input and the
\* output can be written, and the result once the call has returned
MediaCall(op, input, output_dir, decodable, writable) ==
    [op |-> op, input |-> input, output_dir |-> output_dir,
     decodable |-> decodable, writable |-> writable, returned |-> FALSE,
     raised |-> FALSE, path |-> NoPath, written |-> {}]

IdleMedia == media = MediaCall("none", NoPath, "", FALSE, FALSE)

\* the application driven through run()
Init == InitOrchestrator /\ IdleTags /\ IdleSerial /\ IdleExporter /\ IdleMedia

Next ==
    \/ NewSessionButton
    \/ SessionButton
    \/ StartSessionForm
    \/ ProcessSketchButton
    \/ GenerateText3DButton
    \/ SaveButton
    \/ ExportButton

Spec == Init /\ [][Next]_vars

\* the orchestrator's methods called in any order, without run()'s guards
NextCalls ==
    \/ NewSessionButton
    \/ SessionButton
    \/ CreateNewSession
    \/ ProcessSketch
    \/ GenerateText3D
    \/ SaveSession
    \/ ExportToBlender

SpecCalls == Init /\ [][NextCalls]_vars

-----------------------------------------------------------------------------
(* Properties of the orchestrator. *)

Changed(id) == {f \in ArtifactFields : sessions'[id][f] # sessions[id][f]}
SketchFields == {"sketch_path", "rendered_image_path", "sketch_3d_path"}

(* C1: in every state reachable by any sequence of orchestrator actions,   *)
(* the current-session identifier is empty or a key of the session map.    *)
C1_CurrentIsEmptyOrKey ==
    current_session_id = None \/ current_session_id \in DOMAIN sessions

\* a previous session has been selected again
C1_Witness ==
    /\ Len(created) = 2
    /\ current_session_id = created[1]

(* C2: every session ever created is still in the session map, stored      *)
(* under the key equal to its own id, which is the id it was created with; *)
(* the map holds nothing else.                                             *)
C2_NeverRemoved ==
    /\ \A k \in 1..Len(created) :
          /\ created[k] \in DOMAIN sessions
          /\ sessions[created[k]].id = created[k]
    /\ DOMAIN sessions = {created[k] : k \in 1..Len(created)}

\* "New Session" was pressed after two sessions were made and one worked on
C2_Witness ==
    /\ Len(created) = 2
    /\ current_session_id = None
    /\ Truthy(sessions[created[1]].sketch_path)

(* C3, as claimed: once an artifact field holds a path, no later call      *)
(* clears it or replaces it with a different path.                         *)
C3_Monotonic ==
    [][\A id \in DOMAIN sessions : \A f \in ArtifactFields :
          Truthy(sessions[id][f]) =>
              id \in DOMAIN sessions' /\ sessions'[id][f] = sessions[id][f]]_vars

(* C3, amended: no call clears a populated artifact field; blender_file_path *)
(* once set never changes, and neither does text_3d_path when no credential  *)
(* is configured.  (The three sketch fields are replaced by a later          *)
(* process_sketch with another file name.)                                   *)
C3_NeverCleared ==
    [][\A id \in DOMAIN sessions : \A f \in ArtifactFields :
          Truthy(sessions[id][f]) =>
              /\ id \in DOMAIN sessions'
              /\ Truthy(sessions'[id][f])
              /\ f = "blender_file_path" => sessions'[id][f] = sessions[id][f]
              /\ (f = "text_3d_path" /\ ~credential) =>
                     sessions'[id][f] = sessions[id][f]]_vars

\* a session exported, with the sketch of a second upload beside the rendered
\* image of the first
C3_Witness ==
    \E id \in DOMAIN sessions :
        /\ Truthy(sessions[id].blender_file_path)
        /\ Truthy(sessions[id].rendered_image_path)
        /\ basename(sessions[id].rendered_image_path)
               # <<"rendered_">> \o basename(sessions[id].sketch_path)

(* C4, as claimed: a pipeline step sets exactly one artifact field and     *)
(* leaves the other four unchanged (a step that fails may set none).       *)
C4_OneFieldPerStep ==
    [][\A id \in DOMAIN sessions :
          id \in DOMAIN sessions' => Cardinality(Changed(id)) <= 1]_vars

(* C4, amended: process_sketch sets up to three artifact fields            *)
(* (sketch_path, rendered_image_path, sketch_3d_path) and leaves           *)
(* text_3d_path and blender_file_path unchanged; generate_text_3d sets     *)
(* only text_3d_path and export_to_blender only blender_file_path; no      *)
(* other action and no step on another session changes an artifact field.  *)
C4_StepFrame ==
    [][\A id \in DOMAIN sessions :
          /\ id \in DOMAIN sessions'
          /\ id # current_session_id => Changed(id) = {}
          /\ Changed(id) \subseteq SketchFields \/ ~ProcessSketch
          /\ Changed(id) \subseteq {"text_3d_path"} \/ ~GenerateText3D
          /\ Changed(id) \subseteq {"blender_file_path"} \/ ~ExportToBlender
          /\ Changed(id) = {} \/ ProcessSketch \/ GenerateText3D \/ ExportToBlender]_vars

\* a session that went through all three steps
C4_Witness ==
    \E id \in DOMAIN sessions : \A f \in ArtifactFields : Truthy(sessions[id][f])

(* C5, as claimed: through the UI loop, a session whose text_3d_path is    *)
(* populated also has sketch_3d_path populated.                            *)
C5_TextAfterSketch3D ==
    \A id \in DOMAIN sessions :
        Truthy(sessions[id].text_3d_path) => Truthy(sessions[id].sketch_3d_path)

(* C5, amended: through the UI loop, a session whose text_3d_path is       *)
(* populated also has sketch_path populated.                               *)
C5_TextAfterSketch ==
    \A id \in DOMAIN sessions :
        Truthy(sessions[id].text_3d_path) => Truthy(sessions[id].sketch_path)

\* the text model was generated although the sketch gave no 3D model
C5_Witness ==
    \E id \in DOMAIN sessions :
        /\ Truthy(sessions[id].text_3d_path)
        /\ ~Truthy(sessions[id].sketch_3d_path)

(* C9: with no credential configured, create_new_session with any field    *)
(* values raises no exception, stores the new session under a fresh id,    *)
(* makes it current and gives it the empty tag list; every stored session  *)
(* then has empty tags.                                                    *)
C9_CreateWithoutCredential ==
    ~credential =>
        /\ \A id \in DOMAIN sessions : sessions[id].tags = <<>>
        /\ Len(created) < MaxSessions =>
              \A title \in Titles, project_type \in ProjectTypes, genre \in Genres,
                 description \in Descriptions, reply \in TagReplies, now \in NowPairs :
                 LET r == create_new_session(title, project_type, genre,
                                             description, reply, now)
                 IN  /\ r.outcome = "returned_session"
                     /\ r.current_session_id \notin DOMAIN sessions
                     /\ r.current_session_id \in DOMAIN r.sessions
                     /\ r.sessions[r.current_session_id].tags = <<>>
                     /\ r.sessions[r.current_session_id].title = title
                     /\ \A id \in DOMAIN sessions : r.sessions[id] = sessions[id]

\* sessions were created and the newest is current, with no credential
C9_Witness ==
    /\ ~credential
    /\ Len(created) = 2
    /\ current_session_id = created[2]

\* the model file text_to_3d names for the fallback template's first three words
FallbackModelPath(s) ==
    <<MODELS_DIR, "model_from_text_">>
    \o JoinSlug(FirstWords(<<"A", "3D">> \o s.title \o <<"for", "a">> \o s.project_type
                           \o <<"in", "the">> \o s.genre \o <<"genre.">>, 3))
    \o <<".glb">>

(* C10: with no credential configured, no orchestrator action ever invokes *)
(* a text-service operation; generate_text_3d (its file write succeeding)  *)
(* returns the session with text_3d_path set to the model named after the  *)
(* fallback template of title, project_type and genre.                     *)
C10_DegradesWithoutCredential ==
    ~credential =>
        /\ claude_ops = {}
        /\ \A id \in DOMAIN sessions :
              Truthy(sessions[id].text_3d_path) =>
                  sessions[id].text_3d_path = FallbackModelPath(sessions[id])
        /\ HasCurrent =>
              \A reply \in PromptReplies :
                  LET r == generate_text_3d(reply, "none")
                  IN  /\ r.outcome = "returned_session"
                      /\ r.claude_ops = {}
                      /\ r.sessions[current_session_id].text_3d_path
                             = FallbackModelPath(current_session)

\* a text model was generated with no credential
C10_Witness ==
    /\ ~credential
    /\ \E id \in DOMAIN sessions : Truthy(sessions[id].text_3d_path)

EndsWith(path, suffix) ==
    /\ Len(path) >= Len(suffix)
    /\ SubSeq(path, Len(path) - Len(suffix) + 1, Len(path)) = suffix

\* uploads the image conversion succeeds on
Convertible(uploaded_file) == uploaded_file.decodable /\ SavesRGBA(uploaded_file.name)

(* C11, as claimed: process_sketch on an upload named N (conversion and    *)
(* file writes succeeding) gives a rendered_image_path ending in           *)
(* "rendered_" + N and a sketch_3d_path ending in                          *)
(* "model_from_sketch_rendered_" + N + ".glb".                             *)
C11_RenderedAfterUploadName ==
    HasCurrent =>
        \A uploaded_file \in Uploads :
            Convertible(uploaded_file) =>
                LET s == process_sketch(uploaded_file, "none").sessions[current_session_id]
                IN  /\ EndsWith(s.rendered_image_path,
                                <<"rendered_">> \o uploaded_file.name)
                    /\ EndsWith(s.sketch_3d_path,
                                <<"model_from_sketch_", "rendered_">>
                                \o uploaded_file.name \o <<".glb">>)

(* C11, amended: process_sketch on an upload named N in session <id>       *)
(* (conversion and file writes succeeding) saves the sketch as <id>_N and  *)
(* gives rendered_image_path = images/rendered_<id>_N and sketch_3d_path = *)
(* models/model_from_sketch_rendered_<id>_N.glb; every rendered image and  *)
(* sketch model of a session carries the session's id after "rendered_".   *)
C11_RenderedAfterSketchName ==
    /\ \A id \in DOMAIN sessions :
          /\ Truthy(sessions[id].rendered_image_path) =>
                 SubSeq(sessions[id].rendered_image_path, 1, 4)
                     = <<IMAGES_DIR, "rendered_", id, "_">>
          /\ Truthy(sessions[id].sketch_3d_path) =>
                 SubSeq(sessions[id].sketch_3d_path, 1, 5)
                     = <<MODELS_DIR, "model_from_sketch_", "rendered_", id, "_">>
    /\ HasCurrent =>
          \A uploaded_file \in Uploads :
              Convertible(uploaded_file) =>
                  LET id == current_session_id
                      s == process_sketch(uploaded_file, "none").sessions[id]
                  IN  /\ s.sketch_path = <<SKETCHES_DIR, id, "_">> \o uploaded_file.name
                      /\ s.rendered_image_path
                             = <<IMAGES_DIR, "rendered_", id, "_">> \o uploaded_file.name
                      /\ s.sketch_3d_path
                             = <<MODELS_DIR, "model_from_sketch_", "rendered_", id, "_">>
                               \o uploaded_file.name \o <<".glb">>

\* robot.png went through the sketch step of the second session
C11_Witness ==
    /\ "u2" \in DOMAIN sessions
    /\ sessions["u2"].rendered_image_path
           = <<IMAGES_DIR, "rendered_", "u2", "_", "robot", ".png">>
    /\ sessions["u2"].sketch_3d_path
           = <<MODELS_DIR, "model_from_sketch_", "rendered_", "u2", "_", "robot",
               ".png", ".glb">>

(* C15: a file write that fails never makes process_sketch,                *)
(* generate_text_3d or save_session raise: the call returns None / False   *)
(* or the session.                                                         *)
C15_WriteFailureNeverRaises ==
    HasCurrent =>
        /\ \A uploaded_file \in Uploads, fault \in SketchFaults :
              process_sketch(uploaded_file, fault).outcome # "raised"
        /\ \A reply \in {r \in PromptReplies : r.kind = "text"}, fault \in TextFaults :
              generate_text_3d(reply, fault).outcome # "raised"
        /\ \A fault \in SaveFaults : save_session(fault).outcome # "raised"

(* C17: when no executable is located, constructing the exporter raises    *)
(* ValueError, and in every state of the run no script has been written    *)
(* and no process started; export_to_blender returns None, changes no      *)
(* session, and every blender_file_path is unset.                          *)
C17_NoExporterNoScript ==
    ~blender_found =>
        /\ BlenderIntegration(blender_found) = [raised |-> TRUE, error |-> "ValueError"]
        /\ blender_ops = {}
        /\ \A id \in DOMAIN sessions : sessions[id].blender_file_path = NoPath
        /\ \A outcome \in ExportOutcomes :
              LET r == export_to_blender(outcome)
              IN  /\ r.outcome = "returned_none"
                  /\ r.blender_ops = {}
                  /\ r.written = {}
                  /\ r.sessions = sessions

\* a session with both models, ready for export, and no executable
C17_Witness ==
    /\ ~blender_found
    /\ HasCurrent
    /\ Truthy(current_session.sketch_3d_path)
    /\ Truthy(current_session.text_3d_path)

(* C18: no orchestrator operation changes a session's created_at or        *)
(* updated_at: both keep the values the constructor assigned.              *)
C18_TimestampsFrozen ==
    [][\A id \in DOMAIN sessions :
          /\ id \in DOMAIN sessions'
          /\ sessions'[id].created_at = sessions[id].created_at
          /\ sessions'[id].updated_at = sessions[id].updated_at]_vars

\* a session that went through every step still has its first timestamps
C18_Witness ==
    \E id \in DOMAIN sessions :
        /\ \A f \in ArtifactFields : Truthy(sessions[id][f])
        /\ <<sessions[id].created_at, sessions[id].updated_at>> \in NowPairs

(* C20: in every reachable state sketch_3d_path populated implies          *)
(* rendered_image_path populated, which implies sketch_path populated; and *)
(* when the image conversion returns None, process_sketch returns the      *)
(* session having assigned sketch_path only.                               *)
C20_SketchChain ==
    /\ \A id \in DOMAIN sessions :
          /\ Truthy(sessions[id].sketch_3d_path) => Truthy(sessions[id].rendered_image_path)
          /\ Truthy(sessions[id].rendered_image_path) => Truthy(sessions[id].sketch_path)
    /\ HasCurrent =>
          \A uploaded_file \in Uploads, fault \in SketchFaults \ {"sketch_write"} :
              LET id == current_session_id
                  sketch_path == <<SKETCHES_DIR, id, "_">> \o uploaded_file.name
                  image == convert_sketch_to_image(sketch_path, IMAGES_DIR,
                               uploaded_file.decodable, fault # "image_save")
                  r == process_sketch(uploaded_file, fault)
              IN  ~Truthy(image.path) =>
                      /\ r.outcome = "returned_session"
                      /\ r.sessions[id]
                             = [current_session EXCEPT !.sketch_path = sketch_path]
                      /\ r.written = {sketch_path}

\* the conversion failed: the session has its sketch and nothing derived
C20_Witness ==
    \E id \in DOMAIN sessions :
        /\ Truthy(sessions[id].sketch_path)
        /\ ~Truthy(sessions[id].rendered_image_path)
        /\ ~Truthy(sessions[id].sketch_3d_path)

\* through the UI loop a step acts only on the current session, and only
\* while the field its guard tests is empty
GuardedSteps ==
    \A id \in DOMAIN sessions :
        /\ id \in DOMAIN sessions'
        /\ (\E f \in SketchFields : sessions'[id][f] # sessions[id][f]) =>
               /\ id = current_session_id
               /\ ~Truthy(sessions[id].sketch_path)
        /\ sessions'[id].text_3d_path # sessions[id].text_3d_path =>
               /\ id = current_session_id
               /\ ~Truthy(sessions[id].text_3d_path)

(* C19, as claimed: through the UI loop process_sketch is invoked only on  *)
(* a current session whose sketch_path is empty and generate_text_3d only  *)
(* on one whose text_3d_path is empty, so that each step executes at most  *)
(* once per session: whenever a button is shown, any invocation of its     *)
(* step leaves the guard closed.                                           *)
C19_EachStepAtMostOnce ==
    /\ [][GuardedSteps]_vars
    /\ [](HasCurrent =>
            /\ ShowsProcessSketch(current_session) =>
                  \A uploaded_file \in Uploads, fault \in SketchFaults :
                      ~ShowsProcessSketch(
                          process_sketch(uploaded_file, fault).sessions[current_session_id])
            /\ ShowsGenerateText3D(current_session) =>
                  \A reply \in PromptReplies, fault \in TextFaults :
                      ~ShowsGenerateText3D(
                          generate_text_3d(reply, fault).sessions[current_session_id]))

(* C19, amended: through the UI loop process_sketch is invoked only on a   *)
(* current session whose sketch_path is empty and generate_text_3d only on *)
(* one whose text_3d_path is empty; an invocation that returns the session *)
(* leaves the guard closed, so each step completes at most once per        *)
(* session; an invocation that raises before assigning the guarded field   *)
(* leaves the session as it was and the button shown.                      *)
C19_EachStepCompletesOnce ==
    /\ [][GuardedSteps]_vars
    /\ [](HasCurrent =>
            /\ ShowsProcessSketch(current_session) =>
                  \A uploaded_file \in Uploads, fault \in SketchFaults :
                      LET r == process_sketch(uploaded_file, fault)
                      IN  IF r.outcome = "returned_session"
                          THEN ~ShowsProcessSketch(r.sessions[current_session_id])
                          ELSE /\ r.outcome = "raised"
                               /\ ShowsProcessSketch(r.sessions[current_session_id])
                                      => r.sessions = sessions
            /\ ShowsGenerateText3D(current_session) =>
                  \A reply \in PromptReplies, fault \in TextFaults :
                      LET r == generate_text_3d(reply, fault)
                      IN  IF r.outcome = "returned_session"
                          THEN ~ShowsGenerateText3D(r.sessions[current_session_id])
                          ELSE r.outcome = "raised" /\ r.sessions = sessions)

\* both guarded steps have completed on a session
C19_Witness ==
    \E id \in DOMAIN sessions :
        /\ Truthy(sessions[id].sketch_path)
        /\ Truthy(sessions[id].text_3d_path)
        /\ ~Truthy(sessions[id].rendered_image_path)

\* a call that returned outcome and changed nothing, wrote nothing and
\* invoked neither the text service nor the exporter
NoEffect(r, outcome) ==
    /\ r.outcome = outcome
    /\ r.sessions = sessions
    /\ r.current_session_id = current_session_id
    /\ r.written = {}
    /\ r.claude_ops = claude_ops
    /\ r.blender_ops = blender_ops

(* C21: with no current session, process_sketch, generate_text_3d and      *)
(* export_to_blender return None and save_session returns False, whatever  *)
(* their inputs; the session map, the cursor and every session are         *)
(* unchanged, no file is written and neither the text service nor the      *)
(* exporter is invoked.                                                    *)
C21_NoSessionNoEffect ==
    ~HasCurrent =>
        /\ \A uploaded_file \in Uploads, fault \in SketchFaults :
              NoEffect(process_sketch(uploaded_file, fault), "returned_none")
        /\ \A reply \in PromptReplies, fault \in TextFaults :
              NoEffect(generate_text_3d(reply, fault), "returned_none")
        /\ \A fault \in SaveFaults : NoEffect(save_session(fault), "returned_false")
        /\ \A outcome \in ExportOutcomes :
              NoEffect(export_to_blender(outcome), "returned_none")

\* "New Session" was pressed while sessions with artifacts are in the store
C21_Witness ==
    /\ ~HasCurrent
    /\ \E id \in DOMAIN sessions : Truthy(sessions[id].text_3d_path)
    /\ credential
    /\ blender_found

\* the project path export_to_blender asks the exporter for
BlendPath(id) == <<BASE_DIR, id, ".blend">>

(* C22: a session's blender_file_path is populated only by an               *)
(* export_to_blender call on that session whose external process exited    *)
(* with code 0; whenever it is populated it equals <assets>/<id>.blend for *)
(* the session's own id; an export that fails (script not written,          *)
(* executable not started, non-zero exit) leaves every session as it was.  *)
C22_BlendOnlyOnExitZero ==
    /\ [][\A id \in DOMAIN sessions :
             sessions'[id].blender_file_path # sessions[id].blender_file_path =>
                 /\ id = current_session_id
                 /\ blender
                 /\ sessions' = export_to_blender("exit0").sessions]_vars
    /\ [](/\ \A id \in DOMAIN sessions :
                Truthy(sessions[id].blender_file_path) =>
                    /\ sessions[id].blender_file_path = BlendPath(id)
                    /\ "process_started" \in blender_ops
          /\ HasCurrent =>
                /\ \A outcome \in ExportOutcomes \ {"exit0"} :
                      LET r == export_to_blender(outcome)
                      IN  /\ r.sessions = sessions
                          /\ r.outcome \in {"returned_none", "raised"}
                /\ blender =>
                      LET r == export_to_blender("exit0")
                      IN  /\ r.outcome = "returned_path"
                          /\ r.sessions[current_session_id].blender_file_path
                                 = BlendPath(current_session_id))

\* the second session was exported, the first was not
C22_Witness ==
    /\ Len(created) = 2
    /\ sessions[created[2]].blender_file_path = BlendPath(created[2])
    /\ sessions[created[1]].blender_file_path = NoPath

(* C23: no artifact file is shared between sessions: for any two distinct  *)
(* sessions in the store, no populated artifact path of one equals a       *)
(* populated artifact path of the other.                                   *)
C23_ArtifactsNeverShared ==
    \A a \in DOMAIN sessions, b \in DOMAIN sessions :
        a # b =>
            \A f \in ArtifactFields, g \in ArtifactFields :
                (Truthy(sessions[a][f]) /\ Truthy(sessions[b][g])) =>
                    sessions[a][f] # sessions[b][g]

-----------------------------------------------------------------------------
(* The text-service wrapper called directly: one request, answered by any  *)
(* reply of up to MaxReplyLen tokens, by no content, or by an error.       *)

Replies ==
    {ErrorReply, EmptyReply} \cup {TextReply(t) : t \in SeqsUpTo(ReplyTokens, MaxReplyLen)}

Called(op, result) == [op |-> op, outcome |-> result.outcome, value |-> result.value]

IdleOrchestrator ==
    /\ credential = TRUE
    /\ blender_found = TRUE
    /\ sessions = <<>>
    /\ current_session_id = None
    /\ created = <<>>
    /\ claude_ops = {}
    /\ blender_ops = {}

InitTags ==
    /\ IdleOrchestrator
    /\ IdleSerial
    /\ IdleExporter
    /\ IdleMedia
    /\ response \in Replies
    /\ call = NoCall

CallExtractTags ==
    /\ call = NoCall
    /\ call' = Called("extract_tags", extract_tags(response))
    /\ UNCHANGED <<response, orch_vars, serial_vars, exporter_vars, media_vars>>

CallSuggestImprovements ==
    /\ call = NoCall
    /\ call' = Called("suggest_improvements", suggest_improvements(response))
    /\ UNCHANGED <<response, orch_vars, serial_vars, exporter_vars, media_vars>>

NextTags == CallExtractTags \/ CallSuggestImprovements

SpecTags == InitTags /\ [][NextTags]_vars

\* the places <<i, j>> of the JSON array literals in a text
ValidSpans(text) ==
    {sp \in (1..Len(text)) \X (1..Len(text)) :
        /\ sp[1] < sp[2]
        /\ text[sp[1]] = "["
        /\ text[sp[2]] = "]"
        /\ IsArray(Strip(SubSeq(text, sp[1], sp[2])))}

\* the list the array literal at sp denotes
ArrayValue(text, sp) ==
    LET t == Strip(SubSeq(text, sp[1], sp[2]))
    IN  SubSeq(t, 2, Len(t) - 1)

HasBracketPair(text) ==
    \E i \in 1..Len(text), j \in 1..Len(text) : i < j /\ text[i] = "[" /\ text[j] = "]"

StrayBracket(text, sp) ==
    \/ \E i \in 1..(sp[1] - 1) : text[i] = "["
    \/ \E j \in (sp[2] + 1)..Len(text) : text[j] = "]"

(* C7: extract_tags and suggest_improvements absorb every failure: when    *)
(* the request fails, and when the reply holds no content or no array that *)
(* parses, the call returns the empty list and raises nothing.             *)
C7_AbsorbsEveryFailure ==
    (/\ call.op # "none"
     /\ \/ response.kind # "text"
        \/ ValidSpans(response.text) = {})
    => (call.outcome = "returned" /\ call.value = <<>>)

(* C8, as claimed: the extraction returns the empty list when the reply    *)
(* holds no bracketed array, and exactly the parsed array whenever one     *)
(* valid JSON array literal occurs anywhere in the reply, whatever         *)
(* surrounds it.                                                           *)
C8_ExtractsArrayAnywhere ==
    (call.op # "none" /\ response.kind = "text") =>
        /\ call.outcome = "returned"
        /\ ~HasBracketPair(response.text) => call.value = <<>>
        /\ Cardinality(ValidSpans(response.text)) = 1 =>
              \A sp \in ValidSpans(response.text) :
                  call.value = ArrayValue(response.text, sp)

(* C8, amended: the extraction returns the empty list when the reply holds *)
(* no bracketed array; it returns exactly the parsed array when a valid    *)
(* JSON array literal is surrounded by prose with no "[" before it and no  *)
(* "]" after it; and when the one valid array literal of the reply has     *)
(* such a stray bracket around it, the result is the empty list.           *)
C8_ExtractsLoneArray ==
    (call.op # "none" /\ response.kind = "text") =>
        /\ call.outcome = "returned"
        /\ ~HasBracketPair(response.text) => call.value = <<>>
        /\ \A sp \in ValidSpans(response.text) :
              /\ ~StrayBracket(response.text, sp) =>
                     call.value = ArrayValue(response.text, sp)
              /\ (StrayBracket(response.text, sp)
                  /\ Cardinality(ValidSpans(response.text)) = 1) =>
                     call.value = <<>>

\* an array between two words of prose was extracted
C8_Witness ==
    /\ call.op = "extract_tags"
    /\ response = TextReply(<<WORD, "[", STR, "]", WORD>>)
    /\ call.value = <<STR>>

-----------------------------------------------------------------------------
(* A session taken through to_dict and from_dict. *)

DateTimes ==
    [year : {1, 2026}, month : {1, 12}, day : {9, 31}, hour : {0, 23},
     minute : {5}, second : {0, 59}, microsecond : {0, 7, 4512, 999999}]

SessionFields ==
    ArtifactFields \cup {"id", "title", "project_type", "genre", "description",
                         "tags", "created_at", "updated_at"}

\* the artifact paths the three pipeline steps give session u1
Populated(s) ==
    [s EXCEPT !.sketch_path = <<SKETCHES_DIR, "u1", "_", "robot", ".png">>,
              !.rendered_image_path = <<IMAGES_DIR, "rendered_", "u1", "_", "robot", ".png">>,
              !.sketch_3d_path = <<MODELS_DIR, "model_from_sketch_", "rendered_", "u1",
                                   "_", "robot", ".png", ".glb">>,
              !.text_3d_path = <<MODELS_DIR, "model_from_text_", "a", "_", "3d", "_",
                                 "dragon", ".glb">>,
              !.blender_file_path = <<BASE_DIR, "u1", ".blend">>]

Subjects ==
    LET fresh == {IdeationSession("u1", title, <<"Video", "Game">>, <<"Sci-Fi">>,
                                  <<>>, tags, c_at, u_at) :
                      title \in Titles \cup {<<>>}, tags \in {<<>>, <<STR>>},
                      c_at \in DateTimes, u_at \in {T0, T1}}
    IN  fresh \cup {Populated(s) : s \in fresh}

InitSerial ==
    /\ IdleOrchestrator
    /\ IdleTags
    /\ IdleExporter
    /\ IdleMedia
    /\ subject \in Subjects
    /\ document = <<>>
    /\ restored = <<>>

ToDict ==
    /\ document = <<>>
    /\ document' = <<to_dict(subject)>>
    /\ UNCHANGED <<subject, restored, orch_vars, tags_vars, exporter_vars, media_vars>>

FromDict ==
    /\ document # <<>>
    /\ restored = <<>>
    /\ restored' = <<from_dict(document[1])>>
    /\ UNCHANGED <<subject, document, orch_vars, tags_vars, exporter_vars, media_vars>>

NextSerial == ToDict \/ FromDict

SpecSerial == InitSerial /\ [][NextSerial]_vars

(* C6: from_dict(to_dict(s)) equals s on every one of the 13 fields,       *)
(* timestamps included, and serializing the rebuilt session again gives    *)
(* the same document.                                                      *)
C6_RoundTrip ==
    restored # <<>> =>
        /\ DOMAIN restored[1] = SessionFields
        /\ \A f \in SessionFields : restored[1][f] = subject[f]
        /\ to_dict(restored[1]) = document[1]

\* a session with artifacts and a timestamp with microseconds went through
C6_Witness ==
    /\ restored # <<>>
    /\ subject.created_at.microsecond = 7
    /\ subject.updated_at.microsecond = 0
    /\ Truthy(subject.sketch_path)

-----------------------------------------------------------------------------
(* The scene exporter called directly, one call after another; a call      *)
(* advances through writing its script, running the executable and the     *)
(* finally clause.                                                         *)

\* the model file handed to import_3d_model, there or not
ModelFiles ==
    [path : {<<MODELS_DIR, "model_from_text_", "a", "_", "3d", "_", "dragon", ".glb">>},
     exists : BOOLEAN]

\* where the project is to be saved: None or a path
ProjectPaths == {NoPath, <<BASE_DIR, "u1", ".blend">>}

\* session documents with and without the two models
SceneData ==
    LET s == IdeationSession("u1", <<"Dragon">>, <<"Video", "Game">>, <<"Sci-Fi">>,
                             <<>>, <<>>, T0, T1)
    IN  {to_dict([s EXCEPT !.sketch_3d_path = sketch_model, !.text_3d_path = text_model]) :
            sketch_model \in {NoPath, <<MODELS_DIR, "model_from_sketch_", "rendered_",
                                        "u1", "_", "robot", ".png", ".glb">>},
            text_model \in {NoPath, <<MODELS_DIR, "model_from_text_", "a", "_", "3d",
                                      "_", "dragon", ".glb">>}}

InitExporter ==
    /\ IdleOrchestrator
    /\ IdleTags
    /\ IdleSerial
    /\ IdleExporter
    /\ IdleMedia

NoCallUnderWay == invocation.pc \in {"idle", "done"}

CallImport3DModel ==
    /\ NoCallUnderWay
    /\ \E model \in ModelFiles, blender_project_path \in ProjectPaths :
          invocation' = import_3d_model_begin(model.path, model.exists,
                                              blender_project_path)
    /\ UNCHANGED <<tmp_files, orch_vars, tags_vars, serial_vars, media_vars>>

CallCreateIdeationScene ==
    /\ NoCallUnderWay
    /\ \E session_data \in SceneData, output_path \in ProjectPaths :
          invocation' = create_ideation_scene_begin(session_data, output_path)
    /\ UNCHANGED <<tmp_files, orch_vars, tags_vars, serial_vars, media_vars>>

Advance(step) ==
    /\ invocation' = step.inv
    /\ tmp_files' = step.tmp
    /\ UNCHANGED <<orch_vars, tags_vars, serial_vars, media_vars>>

WriteScript ==
    /\ invocation.pc = "write_script"
    /\ \E io \in ScriptIO : Advance(write_script(invocation, tmp_files, io))

RunBlender ==
    /\ invocation.pc = "run"
    /\ \E exit \in ProcessExits : Advance(run_blender(invocation, tmp_files, exit))

RemoveScript ==
    /\ invocation.pc = "finally"
    /\ Advance(remove_script(invocation, tmp_files))

NextExporter ==
    \/ CallImport3DModel
    \/ CallCreateIdeationScene
    \/ WriteScript
    \/ RunBlender
    \/ RemoveScript

SpecExporter == InitExporter /\ [][NextExporter]_vars

(* C13: no call of import_3d_model or create_ideation_scene ends by        *)
(* raising: every failure of the external invocation and a missing input   *)
(* file give None.                                                         *)
C13_NoExceptionReachesCaller ==
    invocation.pc = "done" => invocation.result.outcome # "raised"

(* C14: the script file exists only between being written and the end of   *)
(* the call that wrote it: whenever no call is between its script write    *)
(* and its finally clause, the temporary directory holds no script.        *)
C14_ScriptScoped ==
    invocation.pc \notin {"run", "finally"} => tmp_files = {}

\* the session document of the call had neither model
WithoutModels ==
    /\ invocation.op = "create_ideation_scene"
    /\ invocation.model_paths = <<NoPath, NoPath>>

(* C16: create_ideation_scene on session data with neither sketch_3d_path  *)
(* nor text_3d_path still writes its script and runs the executable; when  *)
(* the process exits 0 the call returns the output path it was given; it   *)
(* returns None only after a non-zero exit and raises only when the script *)
(* cannot be written or the executable cannot be started.                  *)
C16_SceneWithoutModels ==
    WithoutModels =>
        /\ invocation.pc = "run" =>
              /\ invocation.script_path \in tmp_files
              /\ invocation.script.imports = <<<<"None">>, <<"None">>>>
        /\ invocation.pc = "done" =>
              /\ invocation.io # "none"
              /\ invocation.io = "ok" => invocation.exit # "none"
              /\ invocation.exit = "exit0" =>
                     invocation.result = ReturnedPath(invocation.script.save_as)
              /\ invocation.result.outcome = "returned_none" =>
                     invocation.exit = "nonzero"
              /\ invocation.result.outcome = "raised" =>
                     \/ invocation.io \in {"open_fails", "write_fails"}
                     \/ invocation.exit = "cannot_start"

\* a scene without models was saved to the path the caller gave
C16_Witness ==
    /\ WithoutModels
    /\ invocation.pc = "done"
    /\ invocation.exit = "exit0"
    /\ invocation.result = ReturnedPath(<<BASE_DIR, "u1", ".blend">>)

-----------------------------------------------------------------------------
(* The mock media generators called directly: one call, on any of the      *)
(* inputs below.                                                           *)

\* sketch files as process_sketch names them, and as any caller may
SketchPaths ==
    {<<SKETCHES_DIR>> \o name :
        name \in {<<"robot", ".png">>, <<"u1", "_", "robot", ".png">>,
                  <<"car", ".jpg">>, <<"u1", "_", "car", ".jpg">>,
                  <<"scan", ".jpeg">>, <<"u2", "_", "scan", ".jpeg">>,
                  <<"plan", ".png">>, <<"u2", "_", "plan", ".png">>}}

ImagePaths == {<<IMAGES_DIR, "rendered_">> \o basename(p) : p \in SketchPaths}

Prompts ==
    {<<"A", "3D", "Dragon", "for", "a", "Video", "Game">>,
     <<"Sleek,", "chrome", "robot", "with", "antennae">>,
     <<"Dragon">>, <<>>}

MediaCalls ==
    {MediaCall("convert_sketch_to_image", p, IMAGES_DIR, d, w) :
        p \in SketchPaths, d \in BOOLEAN, w \in BOOLEAN}
    \cup {MediaCall("sketch_to_3d", p, MODELS_DIR, TRUE, w) :
            p \in ImagePaths, w \in BOOLEAN}
    \cup {MediaCall("text_to_3d", p, MODELS_DIR, TRUE, w) :
            p \in Prompts, w \in BOOLEAN}

InitMedia ==
    /\ IdleOrchestrator
    /\ IdleTags
    /\ IdleSerial
    /\ IdleExporter
    /\ media \in MediaCalls

Return(raised, path, written) ==
    /\ media' = [media EXCEPT !.returned = TRUE, !.raised = raised,
                              !.path = path, !.written = written]
    /\ UNCHANGED <<orch_vars, tags_vars, serial_vars, exporter_vars>>

ConvertSketchToImage ==
    /\ media.op = "convert_sketch_to_image" /\ ~media.returned
    /\ LET r == convert_sketch_to_image(media.input, media.output_dir,
                                        media.decodable, media.writable)
       IN  Return(FALSE, r.path, r.written)

SketchTo3D ==
    /\ media.op = "sketch_to_3d" /\ ~media.returned
    /\ LET r == sketch_to_3d(media.input, media.output_dir, media.writable)
       IN  Return(r.raised, r.path, r.written)

TextTo3D ==
    /\ media.op = "text_to_3d" /\ ~media.returned
    /\ LET r == text_to_3d(media.input, media.output_dir, media.writable)
       IN  Return(r.raised, r.path, r.written)

NextMedia == ConvertSketchToImage \/ SketchTo3D \/ TextTo3D

SpecMedia == InitMedia /\ [][NextMedia]_vars

(* C12: convert_sketch_to_image on a decodable input image, whatever its   *)
(* file extension (the output directory being writable), creates and       *)
(* returns output_dir/rendered_<input basename>; on an undecodable input   *)
(* it returns None and creates no file.                                    *)
C12_RendersAnyExtension ==
    (media.op = "convert_sketch_to_image" /\ media.returned) =>
        LET output_path == <<media.output_dir, "rendered_">> \o basename(media.input)
        IN  /\ ~media.raised
            /\ (media.decodable /\ media.writable) =>
                   media.path = output_path /\ media.written = {output_path}
            /\ ~media.decodable => media.path = NoPath /\ media.written = {}

=============================================================================
